---- MODULE Spec2Model ----
(***************************************************************************)
(* Model of dashboard/generate-dashboard-redirect.py.                      *)
(*                                                                         *)
(* Every Python str is a Text: a finite sequence of lexemes (tokens).  A   *)
(* lexeme is a piece of text the program never looks inside: a single      *)
(* delimiter character ("$", "{", "}", ".", "/"), an identifier, or an     *)
(* opaque run of other characters.  The empty str is << >>; Python's None  *)
(* is the value None below, which is not a text of any input set.          *)
(***************************************************************************)
EXTENDS Naturals, Sequences, FiniteSets

VARIABLES
    pc,                    \* position of the process / of the call under study
    template_exists,       \* main: template_file.exists()
    path_tools,            \* main: the executables shutil.which finds
    template,              \* the text of dashboard-redirect.yaml.template
    redirect_url_override, \* --redirect-url (None when absent)
    route_host_override,   \* --route-host (None when absent)
    cli,                   \* the CLI tool chosen by get_cli_tool
    variables,             \* the sorted list discover_variables returned
    platform,              \* the descriptor detect_platform returned
    discovered,            \* what discover_redirect_url returned (None if not called)
    values,                \* the map auto_discover_values builds / render receives
    queries,               \* the cluster queries run_command executed, in order
    output_file,           \* the text of dashboard-redirect.yaml (None: not written)
    writes,                \* how many times output_path.write_text ran
    exit_status,           \* << >> while running, <<code>> once the process ended
    error,                 \* the diagnostic of the path that ended the process
    cluster                \* function specifications: the outputs the cluster gives

vars == <<pc, template_exists, path_tools, template, redirect_url_override,
          route_host_override, cli, variables, platform, discovered, values,
          queries, output_file, writes, exit_status, error, cluster>>

----------------------------------------------------------------------------
(* Bounds of the input sets.                                               *)

MaxLen == 4        \* longest template text of the placeholder-syntax inputs

MaxParts == 3      \* most parts of a manifest-like template

MaxItems == 2      \* longest "items" list in a query's JSON output

----------------------------------------------------------------------------
(* Python values and str operations.                                       *)

None == <<"<None>">>

Truthy(x) == x # None /\ x # << >>

\* the texts over an alphabet of lexemes, up to a length
TextsUpTo(alphabet, n) == UNION {[1..k -> alphabet] : k \in 0..n}

\* pat occurs in text at index i
OccursAt(text, pat, i) ==
    /\ i >= 1
    /\ i + Len(pat) - 1 <= Len(text)
    /\ \A k \in 1..Len(pat) : text[i + k - 1] = pat[k]

\* str.find, 1-based: the first index at which pat occurs, 0 when it does not
Find(text, pat) ==
    LET hits == {i \in 1..Len(text) : OccursAt(text, pat, i)}
    IN  IF hits = {} THEN 0 ELSE CHOOSE i \in hits : \A j \in hits : i <= j

\* `pat in text`
Contains(text, pat) == Find(text, pat) # 0

\* str.replace(old, new, 1)
ReplaceFirst(text, old, new) ==
    LET i == Find(text, old)
    IN  IF i = 0 THEN text
        ELSE SubSeq(text, 1, i - 1) \o new \o SubSeq(text, i + Len(old), Len(text))

\* str.replace(old, new): every non-overlapping occurrence, left to right
RECURSIVE ReplaceAll(_, _, _)
ReplaceAll(text, old, new) ==
    LET i == Find(text, old)
    IN  IF i = 0 THEN text
        ELSE SubSeq(text, 1, i - 1) \o new
             \o ReplaceAll(SubSeq(text, i + Len(old), Len(text)), old, new)

\* str.rstrip('/')
RECURSIVE RStripSlash(_)
RStripSlash(text) ==
    IF text # << >> /\ text[Len(text)] = "/"
    THEN RStripSlash(SubSeq(text, 1, Len(text) - 1))
    ELSE text

----------------------------------------------------------------------------
(* discover_variables: re.compile(r'\$\{([^}]+)\}').finditer, then sorted.  *)

\* the first index >= j holding "}", 0 when there is none
FirstClose(content, j) ==
    LET hits == {k \in j..Len(content) : content[k] = "}"}
    IN  IF hits = {} THEN 0 ELSE CHOOSE k \in hits : \A m \in hits : k <= m

\* the pattern matches at i: "$", "{", one or more non-"}" lexemes, "}"
PlaceholderAt(content, i) ==
    /\ i + 1 <= Len(content)
    /\ content[i] = "$"
    /\ content[i + 1] = "{"
    /\ FirstClose(content, i + 2) >= i + 3

\* finditer: leftmost matches, scanning on after each match
RECURSIVE FindPlaceholders(_, _)
FindPlaceholders(content, i) ==
    IF i > Len(content) THEN {}
    ELSE IF PlaceholderAt(content, i)
         THEN LET k == FirstClose(content, i + 2)
              IN  {SubSeq(content, i + 2, k - 1)} \cup FindPlaceholders(content, k + 1)
         ELSE FindPlaceholders(content, i + 1)

\* the set `variables` of lines 22-24
VariableSet(content) == FindPlaceholders(content, 1)

\* Code-point order of the lexemes that can occur in a placeholder name; no
\* lexeme is a prefix of another, so comparing names lexeme by lexeme is
\* Python's str comparison.
CodePointOrder ==
    <<"\n", " ", "$", "-", "AAA", "NAMESPACE", "REDIRECT_URL", "ROUTE_NAME",
      "X", "kind: Route\n", "spec:\n", "{">>

Rank(tok) ==
    LET hits == {i \in 1..Len(CodePointOrder) : CodePointOrder[i] = tok}
    IN  IF hits = {} THEN 0 ELSE CHOOSE i \in hits : TRUE

\* a < b for str
RECURSIVE StrLess(_, _)
StrLess(a, b) ==
    IF a = << >> THEN b # << >>
    ELSE IF b = << >> THEN FALSE
    ELSE IF a[1] = b[1] THEN StrLess(Tail(a), Tail(b))
    ELSE Rank(a[1]) < Rank(b[1])

\* sorted(S)
RECURSIVE Sorted(_)
Sorted(S) ==
    IF S = {} THEN << >>
    ELSE LET least == CHOOSE a \in S : \A b \in S \ {a} : StrLess(a, b)
         IN  <<least>> \o Sorted(S \ {least})

discover_variables(content) == Sorted(VariableSet(content))

\* the elements of a list
Elems(list) == {list[i] : i \in 1..Len(list)}

----------------------------------------------------------------------------
(* string.Template(content).substitute(values).  The pattern is            *)
(*   \$(?:(?P<escaped>\$) | (?P<named>id) | \{(?P<braced>id)\} | (?P<invalid>)) *)
(* with id = [_a-z][_a-z0-9]* (case-insensitive).                          *)

\* the lexemes that are identifiers
IdentTokens == {"AAA", "NAMESPACE", "REDIRECT_URL", "ROUTE_NAME", "X"}

IsIdent(tok) == tok \in IdentTokens

\* the last index of the run of identifier lexemes that starts at i
RECURSIVE IdentRunEnd(_, _)
IdentRunEnd(content, i) ==
    IF i + 1 <= Len(content) /\ IsIdent(content[i + 1])
    THEN IdentRunEnd(content, i + 1)
    ELSE i

NoExc == "none"

\* the scan of re.sub from index i: [exc, text]; the first exception raised
\* (KeyError for a name the map lacks, ValueError for a "$" that starts
\* nothing valid) ends the substitution
RECURSIVE Substitute(_, _, _)
Substitute(content, i, mapping) ==
    IF i > Len(content) THEN [exc |-> NoExc, text |-> << >>]
    ELSE IF content[i] # "$"
    THEN LET rest == Substitute(content, i + 1, mapping)
         IN  [exc |-> rest.exc, text |-> <<content[i]>> \o rest.text]
    ELSE IF i + 1 <= Len(content) /\ content[i + 1] = "$"
    THEN \* escaped
         LET rest == Substitute(content, i + 2, mapping)
         IN  [exc |-> rest.exc, text |-> <<"$">> \o rest.text]
    ELSE IF i + 1 <= Len(content) /\ IsIdent(content[i + 1])
    THEN \* named
         LET e    == IdentRunEnd(content, i + 1)
             key  == SubSeq(content, i + 1, e)
         IN  IF key \notin DOMAIN mapping
             THEN [exc |-> "KeyError", text |-> key]
             ELSE LET rest == Substitute(content, e + 1, mapping)
                  IN  [exc |-> rest.exc, text |-> mapping[key] \o rest.text]
    ELSE IF /\ i + 2 <= Len(content)
            /\ content[i + 1] = "{"
            /\ IsIdent(content[i + 2])
            /\ IdentRunEnd(content, i + 2) + 1 <= Len(content)
            /\ content[IdentRunEnd(content, i + 2) + 1] = "}"
    THEN \* braced
         LET e    == IdentRunEnd(content, i + 2)
             key  == SubSeq(content, i + 2, e)
         IN  IF key \notin DOMAIN mapping
             THEN [exc |-> "KeyError", text |-> key]
             ELSE LET rest == Substitute(content, e + 2, mapping)
                  IN  [exc |-> rest.exc, text |-> mapping[key] \o rest.text]
    ELSE \* invalid
         [exc |-> "ValueError", text |-> << >>]

substitute(content, mapping) == Substitute(content, 1, mapping)

----------------------------------------------------------------------------
(* render_template.                                                        *)

NAMESPACE == <<"NAMESPACE">>

ROUTE_NAME == <<"ROUTE_NAME">>

REDIRECT_URL == <<"REDIRECT_URL">>

\* "spec:\n  port:"
SpecPortMarker == <<"spec:\n", "  port:">>

\* f"  host: {host}\n"
HostLine(host) == <<"  host: ">> \o host \o <<"\n">>

\* lines 225-233 without count=1
inject_route_host_all(rendered, override) ==
    IF Truthy(override)
    THEN ReplaceAll(rendered, SpecPortMarker,
                    <<"spec:\n">> \o HostLine(override) \o <<"  port:">>)
    ELSE rendered

\* lines 225-233: the host field goes before the first "spec:\n  port:" only
inject_route_host(rendered, override) ==
    IF Truthy(override)
    THEN ReplaceFirst(rendered, SpecPortMarker,
                      <<"spec:\n">> \o HostLine(override) \o <<"  port:">>)
    ELSE rendered

\* urllib.parse.urlparse(url).hostname, for URLs without userinfo, port,
\* query, fragment or upper-case letters: the lexemes between the leading
\* "https://" and the first "/"; None without that scheme or with no host
urlparse_hostname(url) ==
    IF url = << >> \/ url[1] # "https://" THEN None
    ELSE LET slashes == {i \in 2..Len(url) : url[i] = "/"}
             stop    == IF slashes = {} THEN Len(url) + 1
                        ELSE CHOOSE i \in slashes : \A j \in slashes : i <= j
             netloc  == SubSeq(url, 2, stop - 1)
         IN  IF netloc = << >> THEN None ELSE netloc

\* lines 242-252: the host after its first label, under data-science-gateway
legacy_host(url) ==
    LET hostname == urlparse_hostname(url)
    IN  IF Truthy(hostname)
        THEN LET dot == Find(hostname, <<".">>)
             IN  IF dot # 0   \* len(hostname.split('.', 1)) > 1
                 THEN <<"data-science-gateway", ".">>
                      \o SubSeq(hostname, dot + 1, Len(hostname))
                 ELSE None
        ELSE None

DsgHead ==
    <<"---\napiVersion: route.openshift.io/v1\nkind: Route\nmetadata:\n  name: data-science-gateway-legacy\n  namespace: ">>

DsgLabels ==
    <<"\n  annotations:\n    haproxy.router.openshift.io/hsts_header: max-age=31536000;includeSubDomains;preload\n    kubernetes.io/tls-acme: \"true\"\n  labels:\n    app: nginx-redirect\n">>

DsgTail ==
    <<"\n    targetPort: http\n  tls:\n    insecureEdgeTerminationPolicy: Redirect\n    termination: edge\n  to:\n    kind: Service\n    name: nginx-redirect\n    weight: 100\n  wildcardPolicy: None\n">>

\* lines 256-279: the appended document, given values['NAMESPACE']
dsg_route(namespace, host) ==
    DsgHead \o namespace \o DsgLabels \o <<"spec:\n">>
    \o (IF Truthy(host) THEN HostLine(host) ELSE << >>)
    \o <<"  port:">> \o DsgTail

\* line 238
wants_legacy_route(mapping) ==
    REDIRECT_URL \in DOMAIN mapping /\ Contains(mapping[REDIRECT_URL], <<"rh-ai">>)

\* render_template, lines 215-282.  outcome "written": text went to the
\* output file; "exit": sys.exit(1) at line 222; "raise": an exception left
\* the function (the ValueError of substitute, the KeyError of line 262)
render_template(content, mapping, override) ==
    LET r == substitute(content, mapping)
    IN  IF r.exc = "KeyError"
        THEN [outcome |-> "exit", exc |-> "KeyError", text |-> << >>]
        ELSE IF r.exc # NoExc
        THEN [outcome |-> "raise", exc |-> r.exc, text |-> << >>]
        ELSE LET rendered == inject_route_host(r.text, override)
             IN  IF wants_legacy_route(mapping)
                 THEN IF NAMESPACE \notin DOMAIN mapping
                      THEN [outcome |-> "raise", exc |-> "KeyError", text |-> << >>]
                      ELSE [outcome |-> "written", exc |-> NoExc,
                            text |-> rendered
                                     \o dsg_route(mapping[NAMESPACE],
                                                  legacy_host(mapping[REDIRECT_URL]))]
                 ELSE [outcome |-> "written", exc |-> NoExc, text |-> rendered]


----------------------------------------------------------------------------
(* run_command and the outputs of the cluster.                             *)
(*                                                                         *)
(* run_command returns None on a non-zero exit, a timeout or a missing     *)
(* executable, and the stripped stdout otherwise.  A JSON query's result   *)
(* is a record: kind says what json.loads makes of the text.               *)

CmdNone == [kind |-> "None", items |-> << >>]                  \* run_command gave None

CmdEmpty == [kind |-> "empty", items |-> << >>]                \* exit 0, stdout ""

CmdInvalidJson == [kind |-> "invalid_json", items |-> << >>]   \* json.loads raises

CmdJsonNotObject == [kind |-> "json_not_object", items |-> << >>]        \* e.g. []

CmdJsonNoItems == [kind |-> "json_no_items", items |-> << >>]            \* e.g. {}

CmdJsonItemsNotList == [kind |-> "json_items_not_list", items |-> << >>] \* {"items": null}

CmdJsonItems(items) == [kind |-> "json_items", items |-> items]

\* `if dashboard_config:` / `if consolelink_url:`
CmdTruthy(out) == out.kind \notin {"None", "empty"}

OpenShiftAI == <<"Red Hat ", "OpenShift AI">>

\* the items of an OdhDashboardConfig list: shape "ok" is an object whose
\* metadata, annotations and labels are objects (or absent)
DashboardItems ==
    [shape : {"ok"},
     annotation : {<< >>, OpenShiftAI},
     namespace : {<< >>, <<"my-namespace">>},
     app_label : {<< >>, <<"rhods-dashboard">>, <<"odh-dashboard">>, <<"other">>}]
    \cup
    [shape : {"not_object", "metadata_not_object", "annotations_not_object"},
     annotation : {<< >>}, namespace : {<< >>}, app_label : {<< >>}]
    \cup
    [shape : {"labels_not_object"},
     annotation : {OpenShiftAI}, namespace : {<<"my-namespace">>}, app_label : {<< >>}]

DashboardOutputs ==
    {CmdNone, CmdEmpty, CmdInvalidJson, CmdJsonNotObject, CmdJsonNoItems,
     CmdJsonItemsNotList}
    \cup {CmdJsonItems(items) : items \in TextsUpTo(DashboardItems, MaxItems)}

\* the jsonpath output of a subscription query
SubOutputs == {None, << >>, <<"operator-subscription">>}

UrlRhAi == <<"https://", "rh-ai", ".", "apps", ".", "example", ".", "com">>

UrlGateway == <<"https://", "gw", ".", "apps", ".", "example", ".", "com">>

ConsolelinkItems ==
    [shape : {"ok"},
     text : {OpenShiftAI, <<"Open Data Hub">>, <<"Other">>},
     href : {<< >>, <<"/">>, UrlGateway, UrlGateway \o <<"/">>, UrlRhAi}]
    \cup
    [shape : {"not_object", "spec_not_object"}, text : {<< >>}, href : {<< >>}]

ConsolelinkOutputs ==
    {CmdNone, CmdEmpty, CmdInvalidJson, CmdJsonNotObject, CmdJsonNoItems,
     CmdJsonItemsNotList}
    \cup {CmdJsonItems(items) : items \in TextsUpTo(ConsolelinkItems, MaxItems)}

\* the jsonpath output of the data-science-gateway route query
GatewayHost == <<"data-science-gateway", ".", "apps", ".", "example", ".", "com">>

RouteOutputs == {None, << >>, GatewayHost}

----------------------------------------------------------------------------
(* detect_platform.                                                        *)

Descriptor(t, ns, rn) == [platform_type |-> t, namespace |-> ns, route_name |-> rn]

NoDescriptor == Descriptor(None, None, None)

RhoaiDefault == Descriptor(<<"rhoai">>, <<"redhat-ods-applications">>, <<"rhods-dashboard">>)

OdhDefault == Descriptor(<<"odh">>, <<"opendatahub">>, <<"odh-dashboard">>)

\* `namespace or default`
Or(a, b) == IF Truthy(a) THEN a ELSE b

Returns(desc) == [kind |-> "return", exc |-> NoExc, desc |-> desc]

Raises(exc) == [kind |-> "raise", exc |-> exc, desc |-> NoDescriptor]

Continue == [kind |-> "next", exc |-> NoExc, desc |-> NoDescriptor]

\* lines 75-82 with the two tests in the other order
classify_item_label_first(item) ==
    IF item.shape # "ok" THEN Raises("AttributeError")
    ELSE IF item.app_label = <<"odh-dashboard">>
    THEN Returns(Descriptor(<<"odh">>, Or(item.namespace, <<"opendatahub">>),
                            <<"odh-dashboard">>))
    ELSE IF Contains(item.annotation, <<"OpenShift AI">>)
            \/ item.app_label = <<"rhods-dashboard">>
    THEN Returns(Descriptor(<<"rhoai">>, Or(item.namespace, <<"redhat-ods-applications">>),
                            <<"rhods-dashboard">>))
    ELSE Continue

\* lines 75-82, one turn of the loop: the .get chain raises AttributeError on
\* an item, metadata, annotations or labels that is no object
classify_item(item) ==
    IF item.shape # "ok" THEN Raises("AttributeError")
    ELSE IF Contains(item.annotation, <<"OpenShift AI">>)
            \/ item.app_label = <<"rhods-dashboard">>
    THEN Returns(Descriptor(<<"rhoai">>, Or(item.namespace, <<"redhat-ods-applications">>),
                            <<"rhods-dashboard">>))
    ELSE IF item.app_label = <<"odh-dashboard">>
    THEN Returns(Descriptor(<<"odh">>, Or(item.namespace, <<"opendatahub">>),
                            <<"odh-dashboard">>))
    ELSE Continue

\* line 74: the loop over the items, left at the first return or exception
RECURSIVE scan_dashboard_items(_, _)
scan_dashboard_items(items, i) ==
    IF i > Len(items) THEN Continue
    ELSE LET r == classify_item(items[i])
         IN  IF r.kind = "next" THEN scan_dashboard_items(items, i + 1) ELSE r

\* lines 71-84: only json.JSONDecodeError is caught
read_dashboard_config(out) ==
    IF ~CmdTruthy(out) THEN Continue
    ELSE IF out.kind = "invalid_json" THEN Continue
    ELSE IF out.kind = "json_not_object" THEN Raises("AttributeError")
    ELSE IF out.kind = "json_items_not_list" THEN Raises("TypeError")
    ELSE IF out.kind = "json_no_items" THEN Continue
    ELSE scan_dashboard_items(out.items, 1)

QDashboard == "get odhdashboardconfig"

QRhoaiSub == "get subscription rhods-operator"

QOdhSub == "get subscription opendatahub-operator"

QConsolelink == "get consolelink"

QRoute == "get route data-science-gateway"

\* lines 86-104 with the second probe left out
subscription_fallback_rhoai_only(rhoai_sub, odh_sub) ==
    IF Truthy(rhoai_sub)
    THEN [desc |-> RhoaiDefault, queries |-> <<QRhoaiSub>>]
    ELSE [desc |-> NoDescriptor, queries |-> <<QRhoaiSub>>]

\* lines 86-104: the two subscription probes, RHOAI first
subscription_fallback(rhoai_sub, odh_sub) ==
    IF Truthy(rhoai_sub)
    THEN [desc |-> RhoaiDefault, queries |-> <<QRhoaiSub>>]
    ELSE IF Truthy(odh_sub)
    THEN [desc |-> OdhDefault, queries |-> <<QRhoaiSub, QOdhSub>>]
    ELSE [desc |-> NoDescriptor, queries |-> <<QRhoaiSub, QOdhSub>>]

\* detect_platform: [exc, desc, queries]
detect_platform(dashboard_config, rhoai_sub, odh_sub) ==
    LET r == read_dashboard_config(dashboard_config)
    IN  IF r.kind = "raise"
        THEN [exc |-> r.exc, desc |-> NoDescriptor, queries |-> <<QDashboard>>]
        ELSE IF r.kind = "return"
        THEN [exc |-> NoExc, desc |-> r.desc, queries |-> <<QDashboard>>]
        ELSE LET f == subscription_fallback(rhoai_sub, odh_sub)
             IN  [exc |-> NoExc, desc |-> f.desc, queries |-> <<QDashboard>> \o f.queries]

----------------------------------------------------------------------------
(* discover_redirect_url.                                                  *)

UrlReturns(url) == [kind |-> "return", exc |-> NoExc, url |-> url]

UrlRaises(exc) == [kind |-> "raise", exc |-> exc, url |-> None]

UrlContinue == [kind |-> "next", exc |-> NoExc, url |-> None]

\* lines 121-127, one turn of the loop
consolelink_item(item) ==
    IF item.shape # "ok" THEN UrlRaises("AttributeError")
    ELSE IF Contains(item.text, <<"OpenShift AI">>) \/ Contains(item.text, <<"Open Data Hub">>)
    THEN IF Truthy(item.href) THEN UrlReturns(RStripSlash(item.href)) ELSE UrlContinue
    ELSE UrlContinue

\* line 120
RECURSIVE scan_consolelinks(_, _)
scan_consolelinks(items, i) ==
    IF i > Len(items) THEN UrlContinue
    ELSE LET r == consolelink_item(items[i])
         IN  IF r.kind = "next" THEN scan_consolelinks(items, i + 1) ELSE r

\* lines 117-129
read_consolelinks(out) ==
    IF ~CmdTruthy(out) THEN UrlContinue
    ELSE IF out.kind = "invalid_json" THEN UrlContinue
    ELSE IF out.kind = "json_not_object" THEN UrlRaises("AttributeError")
    ELSE IF out.kind = "json_items_not_list" THEN UrlRaises("TypeError")
    ELSE IF out.kind = "json_no_items" THEN UrlContinue
    ELSE scan_consolelinks(out.items, 1)

\* discover_redirect_url: [exc, url, queries]
discover_redirect_url(consolelink, route_host) ==
    LET r == read_consolelinks(consolelink)
    IN  IF r.kind = "raise"
        THEN [exc |-> r.exc, url |-> None, queries |-> <<QConsolelink>>]
        ELSE IF r.kind = "return"
        THEN [exc |-> NoExc, url |-> r.url, queries |-> <<QConsolelink>>]
        ELSE IF Truthy(route_host)
        THEN [exc |-> NoExc, url |-> <<"https://">> \o route_host,
              queries |-> <<QConsolelink, QRoute>>]
        ELSE [exc |-> NoExc, url |-> None, queries |-> <<QConsolelink, QRoute>>]


----------------------------------------------------------------------------
(* auto_discover_values.                                                   *)

EmptyMap == [k \in {} |-> << >>]

Put(m, k, v) == [x \in DOMAIN m \cup {k} |-> IF x = k THEN v ELSE m[x]]

\* line 158 read as `if False:`
platform_detected_always(desc) == desc = desc

\* line 158, `if not platform_type` negated
platform_detected(desc) == Truthy(desc.platform_type)

\* lines 170-176
platform_values(names, desc) ==
    LET with_ns == IF NAMESPACE \in Elems(names)
                   THEN Put(EmptyMap, NAMESPACE, desc.namespace) ELSE EmptyMap
    IN  IF ROUTE_NAME \in Elems(names)
        THEN Put(with_ns, ROUTE_NAME, desc.route_name) ELSE with_ns

Resolved(vals, qs, url) ==
    [outcome |-> "return", exc |-> NoExc, values |-> vals, queries |-> qs, discovered |-> url]

\* lines 195-205 with the `elif` branch dropped: an unresolved name is skipped
RECURSIVE resolve_loop_skipping(_, _, _, _, _, _, _)
resolve_loop_skipping(names, i, vals, qs, url, override, d) ==
    IF i > Len(names) THEN Resolved(vals, qs, url)
    ELSE IF names[i] \in DOMAIN vals
    THEN resolve_loop_skipping(names, i + 1, vals, qs, url, override, d)
    ELSE IF names[i] = REDIRECT_URL /\ Truthy(override)
    THEN resolve_loop_skipping(names, i + 1, Put(vals, names[i], override), qs, url,
                               override, d)
    ELSE IF names[i] = REDIRECT_URL
    THEN IF d.exc # NoExc
         THEN [outcome |-> "raise", exc |-> d.exc, values |-> vals,
               queries |-> qs \o d.queries, discovered |-> None]
         ELSE resolve_loop_skipping(names, i + 1,
                  IF Truthy(d.url) THEN Put(vals, names[i], d.url) ELSE vals,
                  qs \o d.queries, d.url, override, d)
    ELSE resolve_loop_skipping(names, i + 1, vals, qs, url, override, d)

\* lines 179-205: the loop over the sorted names, from the i-th on; d is what
\* the call of discover_redirect_url at line 191 gives.  [outcome, exc, values,
\* queries, discovered]: "return" at the end of the list, "exit" at
\* sys.exit(1) of line 205, "raise" when discover_redirect_url raises
RECURSIVE resolve_loop(_, _, _, _, _, _, _)
resolve_loop(names, i, vals, qs, url, override, d) ==
    IF i > Len(names) THEN Resolved(vals, qs, url)
    ELSE IF names[i] \in DOMAIN vals
    THEN resolve_loop(names, i + 1, vals, qs, url, override, d)
    ELSE IF names[i] = REDIRECT_URL /\ Truthy(override)
    THEN resolve_loop(names, i + 1, Put(vals, names[i], override), qs, url,
                      override, d)
    ELSE IF names[i] = REDIRECT_URL
    THEN IF d.exc # NoExc
         THEN [outcome |-> "raise", exc |-> d.exc, values |-> vals,
               queries |-> qs \o d.queries, discovered |-> None]
         ELSE IF Truthy(d.url)
         THEN resolve_loop(names, i + 1, Put(vals, names[i], d.url),
                           qs \o d.queries, d.url, override, d)
         ELSE [outcome |-> "exit", exc |-> NoExc, values |-> vals,
               queries |-> qs \o d.queries, discovered |-> d.url]
    ELSE [outcome |-> "exit", exc |-> NoExc, values |-> vals, queries |-> qs,
          discovered |-> url]

\* lines 169-208
resolve_values(names, desc, override, d) ==
    resolve_loop(names, 1, platform_values(names, desc), << >>, None, override, d)

----------------------------------------------------------------------------
(* main: the whole run.                                                    *)

Placeholder(name) == <<"$", "{", name, "}">>

\* templates of a run: without placeholders, with the three known ones,
\* with an unknown one before or after REDIRECT_URL, with an escaped "$$",
\* with an unbraced $name and with a stray "$"
MainTemplates ==
    { <<"kind: Route\n">>,
      <<"name: ">> \o Placeholder("ROUTE_NAME") \o <<"\n  namespace: ">>
          \o Placeholder("NAMESPACE") \o <<"\n">> \o SpecPortMarker
          \o <<"\n  url: ">> \o Placeholder("REDIRECT_URL"),
      <<"url: ">> \o Placeholder("REDIRECT_URL"),
      Placeholder("NAMESPACE") \o SpecPortMarker,
      Placeholder("REDIRECT_URL") \o Placeholder("X"),
      Placeholder("AAA") \o Placeholder("REDIRECT_URL"),
      <<"$", "$">> \o Placeholder("NAMESPACE"),
      Placeholder("NAMESPACE") \o <<"$", "ROUTE_NAME">>,
      Placeholder("NAMESPACE") \o <<"$", " ">> }

RedirectOverrides == {None, << >>, UrlRhAi, UrlGateway}

OldHost == <<"old-dashboard.apps.example.com">>

RouteHostOverrides == {None, OldHost}

\* the variables a function specification does not use
MainUnused ==
    /\ template_exists = TRUE
    /\ path_tools = {}
    /\ cli = None
    /\ variables = << >>

InitMain ==
    /\ pc = "main"
    /\ template_exists \in BOOLEAN
    /\ path_tools \in SUBSET {"oc", "kubectl"}
    /\ template \in MainTemplates
    /\ redirect_url_override \in RedirectOverrides
    /\ route_host_override \in RouteHostOverrides
    /\ cli = None
    /\ variables = << >>
    /\ platform = NoDescriptor
    /\ discovered = None
    /\ values = EmptyMap
    /\ queries = << >>
    /\ output_file = None
    /\ writes = 0
    /\ exit_status = << >>
    /\ error = "none"
    /\ cluster = << >>

\* sys.exit(code), or an uncaught exception (the interpreter exits with 1)
Exit(code, why) ==
    /\ pc' = "exited"
    /\ exit_status' = <<code>>
    /\ error' = why

\* what detect_platform can give, over every output of its three queries
DetectOutcomes ==
    {detect_platform(dashboard_config, rhoai_sub, odh_sub) :
        dashboard_config \in DashboardOutputs, rhoai_sub \in SubOutputs,
        odh_sub \in SubOutputs}

\* what discover_redirect_url can give, over every output of its two queries
DiscoverOutcomes ==
    {discover_redirect_url(consolelink, route_host) :
        consolelink \in ConsolelinkOutputs, route_host \in RouteOutputs}

Inputs == <<template_exists, path_tools, template, redirect_url_override,
            route_host_override, cluster>>

\* lines 310-316
main_template_check ==
    /\ pc = "main"
    /\ IF template_exists
       THEN pc' = "get_cli_tool" /\ UNCHANGED <<exit_status, error>>
       ELSE Exit(1, "template_not_found")
    /\ UNCHANGED <<Inputs, cli, variables, platform, discovered, values, queries,
                   output_file, writes>>

\* get_cli_tool, lines 33-39, without the exit of line 39
get_cli_tool_unchecked ==
    /\ pc = "get_cli_tool"
    /\ cli' = (IF "oc" \in path_tools THEN <<"oc">>
               ELSE IF "kubectl" \in path_tools THEN <<"kubectl">> ELSE None)
    /\ pc' = "discover_variables"
    /\ UNCHANGED <<template_exists, path_tools, template, redirect_url_override,
                   route_host_override, cluster, variables, platform, discovered,
                   values, queries, output_file, writes, exit_status, error>>

\* get_cli_tool, lines 33-39, called at line 319
get_cli_tool ==
    /\ pc = "get_cli_tool"
    /\ IF "oc" \in path_tools
       THEN cli' = <<"oc">> /\ pc' = "discover_variables" /\ UNCHANGED <<exit_status, error>>
       ELSE IF "kubectl" \in path_tools
       THEN cli' = <<"kubectl">> /\ pc' = "discover_variables"
            /\ UNCHANGED <<exit_status, error>>
       ELSE cli' = cli /\ Exit(1, "no_cli_tool")
    /\ UNCHANGED <<Inputs, variables, platform, discovered, values, queries,
                   output_file, writes>>

\* lines 324-329
main_discover_variables ==
    /\ pc = "discover_variables"
    /\ variables' = discover_variables(template)
    /\ IF variables' = << >>
       THEN Exit(0, "no_variables")
       ELSE pc' = "detect_platform" /\ UNCHANGED <<exit_status, error>>
    /\ UNCHANGED <<Inputs, cli, platform, discovered, values, queries, output_file, writes>>

\* auto_discover_values, lines 150-167: detect_platform and the check of it
auto_discover_detect ==
    /\ pc = "detect_platform"
    /\ \E r \in DetectOutcomes :
              /\ queries' = queries \o r.queries
              /\ platform' = r.desc
              /\ IF r.exc # NoExc THEN Exit(1, r.exc)
                 ELSE IF ~platform_detected(r.desc) THEN Exit(1, "platform_undetected")
                 ELSE pc' = "resolve" /\ UNCHANGED <<exit_status, error>>
    /\ UNCHANGED <<Inputs, cli, variables, discovered, values, output_file, writes>>

\* auto_discover_values, lines 169-208
auto_discover_resolve ==
    /\ pc = "resolve"
    /\ \E d \in DiscoverOutcomes :
          LET r == resolve_values(variables, platform, redirect_url_override, d)
          IN  /\ queries' = queries \o r.queries
              /\ values' = r.values
              /\ discovered' = r.discovered
              /\ IF r.outcome = "raise" THEN Exit(1, r.exc)
                 ELSE IF r.outcome = "exit" THEN Exit(1, "unresolvable")
                 ELSE pc' = "render_template" /\ UNCHANGED <<exit_status, error>>
    /\ UNCHANGED <<Inputs, cli, variables, platform, output_file, writes>>

\* line 335: render_template
main_render ==
    /\ pc = "render_template"
    /\ LET r == render_template(template, values, route_host_override)
       IN  IF r.outcome = "written"
           THEN /\ output_file' = r.text
                /\ writes' = writes + 1
                /\ pc' = "apply_hint"
                /\ UNCHANGED <<exit_status, error>>
           ELSE /\ Exit(1, IF r.outcome = "exit" THEN "missing_value" ELSE r.exc)
                /\ UNCHANGED <<output_file, writes>>
    /\ UNCHANGED <<Inputs, cli, variables, platform, discovered, values, queries>>

\* lines 337-340, and the end of the script
main_finish ==
    /\ pc = "apply_hint"
    /\ Exit(0, "none")
    /\ UNCHANGED <<Inputs, cli, variables, platform, discovered, values, queries,
                   output_file, writes>>

Next ==
    \/ main_template_check
    \/ get_cli_tool
    \/ main_discover_variables
    \/ auto_discover_detect
    \/ auto_discover_resolve
    \/ main_render
    \/ main_finish

Spec == InitMain /\ [][Next]_vars


----------------------------------------------------------------------------
(* detect_platform on its own: every output of its three queries.          *)

InitDetect ==
    /\ pc = "call"
    /\ cluster \in [dashboard_config : DashboardOutputs, rhoai_sub : SubOutputs,
                    odh_sub : SubOutputs]
    /\ MainUnused
    /\ template = << >>
    /\ redirect_url_override = None
    /\ route_host_override = None
    /\ platform = NoDescriptor
    /\ discovered = None
    /\ values = EmptyMap
    /\ queries = << >>
    /\ output_file = None
    /\ writes = 0
    /\ exit_status = << >>
    /\ error = "none"

detect_platform_call ==
    /\ pc = "call"
    /\ LET r == detect_platform(cluster.dashboard_config, cluster.rhoai_sub,
                                cluster.odh_sub)
       IN  /\ platform' = r.desc
           /\ queries' = r.queries
           /\ error' = r.exc
    /\ pc' = "returned"
    /\ UNCHANGED <<Inputs, cli, variables, discovered, values, output_file, writes,
                   exit_status>>

NextDetect == detect_platform_call

SpecDetect == InitDetect /\ [][NextDetect]_vars

----------------------------------------------------------------------------
(* discover_redirect_url on its own: every output of its two queries.      *)

InitUrl ==
    /\ pc = "call"
    /\ cluster \in [consolelink : ConsolelinkOutputs, route_host : RouteOutputs]
    /\ MainUnused
    /\ template = << >>
    /\ redirect_url_override = None
    /\ route_host_override = None
    /\ platform = NoDescriptor
    /\ discovered = None
    /\ values = EmptyMap
    /\ queries = << >>
    /\ output_file = None
    /\ writes = 0
    /\ exit_status = << >>
    /\ error = "none"

discover_redirect_url_call ==
    /\ pc = "call"
    /\ LET r == discover_redirect_url(cluster.consolelink, cluster.route_host)
       IN  /\ discovered' = r.url
           /\ queries' = r.queries
           /\ error' = r.exc
    /\ pc' = "returned"
    /\ UNCHANGED <<Inputs, cli, variables, platform, values, output_file, writes,
                   exit_status>>

NextUrl == discover_redirect_url_call

SpecUrl == InitUrl /\ [][NextUrl]_vars

----------------------------------------------------------------------------
(* render_template on its own: template texts over the placeholder syntax  *)
(* with the map of exactly the names found in them, and manifest-like      *)
(* templates with maps of NAMESPACE and REDIRECT_URL and a route host.     *)

LexTokens == {"$", "{", "}", "X", "-"}

SyntaxTemplates == TextsUpTo(LexTokens, MaxLen)

\* the map giving every name found in the text a value
FoundMap(content) == [k \in VariableSet(content) |-> <<"v">>]

RECURSIVE Flatten(_)
Flatten(parts) == IF parts = << >> THEN << >> ELSE Head(parts) \o Flatten(Tail(parts))

ManifestParts ==
    {Placeholder("NAMESPACE"), Placeholder("REDIRECT_URL"), SpecPortMarker,
     <<"spec:\n">>, <<"kind: Route\n">>}

ManifestTemplates == {Flatten(parts) : parts \in TextsUpTo(ManifestParts, MaxParts)}

RedirectUrls ==
    {UrlRhAi, UrlGateway, <<"https://", "rh-ai">>,
     <<"rh-ai", ".", "apps", ".", "example", ".", "com">>,
     UrlGateway \o <<"/", "rh-ai">>}

\* the map with NAMESPACE and REDIRECT_URL, each left out when None
MapOf(ns, url) ==
    [k \in (IF ns = None THEN {} ELSE {NAMESPACE})
           \cup (IF url = None THEN {} ELSE {REDIRECT_URL})
       |-> IF k = NAMESPACE THEN ns ELSE url]

ManifestMaps ==
    {MapOf(ns, url) : ns \in {None, <<"my-namespace">>}, url \in {None} \cup RedirectUrls}

InitRender ==
    /\ pc = "call"
    /\ \/ /\ template \in SyntaxTemplates
          /\ values = FoundMap(template)
          /\ route_host_override = None
       \/ /\ template \in ManifestTemplates
          /\ values \in ManifestMaps
          /\ route_host_override \in {None, << >>, OldHost}
    /\ MainUnused
    /\ redirect_url_override = None
    /\ platform = NoDescriptor
    /\ discovered = None
    /\ queries = << >>
    /\ output_file = None
    /\ writes = 0
    /\ exit_status = << >>
    /\ error = "none"
    /\ cluster = << >>

render_template_call ==
    /\ pc = "call"
    /\ LET r == render_template(template, values, route_host_override)
       IN  IF r.outcome = "written"
           THEN /\ output_file' = r.text
                /\ writes' = writes + 1
                /\ UNCHANGED <<exit_status, error>>
           ELSE /\ exit_status' = <<1>>
                /\ error' = (IF r.outcome = "exit" THEN "missing_value" ELSE r.exc)
                /\ UNCHANGED <<output_file, writes>>
    /\ pc' = "returned"
    /\ UNCHANGED <<Inputs, cli, variables, platform, discovered, values, queries>>

NextRender == render_template_call

SpecRender == InitRender /\ [][NextRender]_vars


----------------------------------------------------------------------------
(* Properties of detect_platform (under SpecDetect).                       *)

\* the OdhDashboardConfig query yields no items: no result, or an empty list
NoDashboardItems ==
    \/ cluster.dashboard_config.kind \in {"None", "empty", "json_no_items"}
    \/ /\ cluster.dashboard_config.kind = "json_items"
       /\ cluster.dashboard_config.items = << >>

\* C1 as stated: with no OdhDashboardConfig items and a non-empty answer to
\* the opendatahub-operator subscription query, detect_platform returns
\* ('odh', 'opendatahub', 'odh-dashboard'), whatever the rhods-operator
\* subscription query answers.
C1_OdhWhateverRhoaiSub ==
    (pc = "returned" /\ NoDashboardItems /\ Truthy(cluster.odh_sub))
        => platform = OdhDefault

\* C1 amended: with no OdhDashboardConfig items, no (or an empty) answer to
\* the rhods-operator subscription query and a non-empty answer to the
\* opendatahub-operator one, detect_platform returns
\* ('odh', 'opendatahub', 'odh-dashboard').
C1_OdhAfterRhoaiSubFails ==
    (pc = "returned" /\ NoDashboardItems /\ ~Truthy(cluster.rhoai_sub)
        /\ Truthy(cluster.odh_sub))
        => (platform = OdhDefault /\ error = NoExc
            /\ queries = <<QDashboard, QRhoaiSub, QOdhSub>>)

C1_Witness ==
    /\ pc = "returned"
    /\ cluster.dashboard_config = CmdJsonItems(<< >>)
    /\ cluster.rhoai_sub = << >>
    /\ Truthy(cluster.odh_sub)
    /\ platform = OdhDefault

DashboardList == cluster.dashboard_config.items

HasMarker(i) == Contains(DashboardList[i].annotation, <<"OpenShift AI">>)

\* what C2 says the detector returns for the item at i
RhoaiOf(i) ==
    Descriptor(<<"rhoai">>,
               IF DashboardList[i].namespace = << >> THEN <<"redhat-ods-applications">>
               ELSE DashboardList[i].namespace,
               <<"rhods-dashboard">>)

\* C2 as stated (for lists of well-formed items): if the list has an item
\* whose platform-type annotation contains 'OpenShift AI', detect_platform
\* returns ('rhoai', that item's namespace or 'redhat-ods-applications',
\* 'rhods-dashboard'), at every position of the item and for every content of
\* the other items.
C2_MarkerAnywhere ==
    (/\ pc = "returned"
     /\ cluster.dashboard_config.kind = "json_items"
     /\ \A j \in 1..Len(DashboardList) : DashboardList[j].shape = "ok")
        => \A i \in 1..Len(DashboardList) : HasMarker(i) => platform = RhoaiOf(i)

\* the item at j makes the loop return: it has the annotation or one of the
\* two app labels
Classifies(j) ==
    \/ HasMarker(j)
    \/ DashboardList[j].app_label \in {<<"rhods-dashboard">>, <<"odh-dashboard">>}

\* C2 amended: if the list has an item whose annotation contains
\* 'OpenShift AI', that item and the items before it are well-formed, and no
\* item before it has the annotation or the app label 'rhods-dashboard' or
\* 'odh-dashboard', detect_platform returns ('rhoai', that item's namespace or
\* 'redhat-ods-applications', 'rhods-dashboard'), whatever that item's app
\* label and whatever follows it.
C2_FirstClassifyingItem ==
    (pc = "returned" /\ cluster.dashboard_config.kind = "json_items")
        => \A i \in 1..Len(DashboardList) :
              (/\ HasMarker(i)
               /\ \A j \in 1..i : DashboardList[j].shape = "ok"
               /\ \A j \in 1..(i - 1) : ~Classifies(j))
                  => (platform = RhoaiOf(i) /\ error = NoExc /\ queries = <<QDashboard>>)

C2_Witness ==
    /\ pc = "returned"
    /\ cluster.dashboard_config.kind = "json_items"
    /\ Len(DashboardList) = 2
    /\ DashboardList[1].shape = "ok" /\ ~Classifies(1)
    /\ DashboardList[2].shape = "ok" /\ HasMarker(2)
    /\ DashboardList[2].app_label = <<"odh-dashboard">>
    /\ DashboardList[2].namespace = << >>
    /\ platform = RhoaiDefault

\* the code reads a part of the output that has not the expected shape: the
\* text is no JSON, the top level is no object, "items" is no list, or the
\* loop comes to an item that is not a well-formed object
ReadsMalformedDashboard ==
    \/ cluster.dashboard_config.kind
          \in {"invalid_json", "json_not_object", "json_items_not_list"}
    \/ /\ cluster.dashboard_config.kind = "json_items"
       /\ \E j \in 1..Len(DashboardList) :
             /\ DashboardList[j].shape # "ok"
             /\ \A k \in 1..(j - 1) : DashboardList[k].shape = "ok" /\ ~Classifies(k)

\* C9: on an OdhDashboardConfig output that is not well-formed data of the
\* expected shape, detect_platform does not abort: it treats step 1 as
\* absent and goes on to the rhods-operator subscription probe.
C9_MalformedIsAbsent ==
    (pc = "returned" /\ ReadsMalformedDashboard)
        => /\ error = NoExc
           /\ platform = subscription_fallback(cluster.rhoai_sub, cluster.odh_sub).desc
           /\ Len(queries) >= 2 /\ queries[2] = QRhoaiSub

----------------------------------------------------------------------------
(* Properties of discover_redirect_url (under SpecUrl).                    *)

ConsolelinkList == cluster.consolelink.items

\* the consolelink output is absent or well-formed
ConsolelinkWellFormed ==
    \/ cluster.consolelink.kind \in {"None", "empty", "json_no_items"}
    \/ /\ cluster.consolelink.kind = "json_items"
       /\ \A j \in 1..Len(ConsolelinkList) : ConsolelinkList[j].shape = "ok"

\* the item at j yields a URL: its text names the product and its href is
\* non-empty once the trailing slashes are stripped
YieldsUrl(j) ==
    /\ \/ Contains(ConsolelinkList[j].text, <<"OpenShift AI">>)
       \/ Contains(ConsolelinkList[j].text, <<"Open Data Hub">>)
    /\ RStripSlash(ConsolelinkList[j].href) # << >>

\* C10: when no consolelink item yields a URL, discover_redirect_url queries
\* the data-science-gateway route and returns 'https://' + host if the host
\* is non-empty, and no result otherwise; every value it returns is a
\* non-empty URL without a trailing '/'.
C10_RouteFallback ==
    (pc = "returned" /\ ConsolelinkWellFormed)
        => /\ (\A j \in 1..Len(ConsolelinkList) : ~YieldsUrl(j))
                 => /\ queries = <<QConsolelink, QRoute>>
                    /\ discovered = IF Truthy(cluster.route_host)
                                    THEN <<"https://">> \o cluster.route_host
                                    ELSE None
           /\ discovered # None
                 => (discovered # << >> /\ discovered[Len(discovered)] # "/")


----------------------------------------------------------------------------
(* Properties of render_template (under SpecRender).                       *)

\* the text holds an unresolved ${...} marker
HasUnresolvedMarker(text) == \E i \in 1..Len(text) : PlaceholderAt(text, i)

\* C4: for every template text and every map whose key set is exactly
\* discover_variables(text), render_template completes and the text it
\* writes holds no unresolved ${...} marker.
C4_RoundTrip ==
    (pc = "returned" /\ DOMAIN values = Elems(discover_variables(template)))
        => (writes = 1 /\ exit_status = << >> /\ ~HasUnresolvedMarker(output_file))

\* the text after substitution, for a map the substitution accepts
Substituted == substitute(template, values).text

SubstitutionAccepts == substitute(template, values).exc = NoExc

\* the primary text as written: the substituted text, with the host line of
\* the route-host override (if any) before its first "spec:\n  port:"
PrimaryText ==
    LET n == Find(Substituted, SpecPortMarker)
    IN  IF Truthy(route_host_override) /\ n # 0
        THEN SubSeq(Substituted, 1, n) \o HostLine(route_host_override)
             \o SubSeq(Substituted, n + 1, Len(Substituted))
        ELSE Substituted

HasRhAi == REDIRECT_URL \in DOMAIN values /\ \E i \in 1..Len(values[REDIRECT_URL]) :
                                                  values[REDIRECT_URL][i] = "rh-ai"

\* C5: called with a map the substitution accepts whose REDIRECT_URL holds
\* 'rh-ai', render_template writes the primary text followed by exactly one
\* '---' Route document data-science-gateway-legacy in the resolved namespace,
\* with host 'data-science-gateway.' + (the URL's host after its first label),
\* or no host line when the host has no further segment; without 'rh-ai' it
\* appends nothing.
C5_LegacyRouteAppended ==
    (pc = "returned" /\ SubstitutionAccepts)
        => /\ writes = 1
           /\ HasRhAi /\ NAMESPACE \in DOMAIN values
                 => output_file = PrimaryText
                        \o dsg_route(values[NAMESPACE], legacy_host(values[REDIRECT_URL]))
           /\ ~HasRhAi => output_file = PrimaryText

\* how many times pat occurs in text
CountOcc(text, pat) == Cardinality({i \in 1..Len(text) : OccursAt(text, pat, i)})

\* C6: with a route-host override, one 'host: <override>' line is injected
\* right before the first "spec:\n  port:" of the substituted text and none
\* when there is no such marker; every later occurrence is unchanged, and the
\* appended data-science-gateway-legacy document never receives the override.
C6_HostBeforeFirstMarkerOnly ==
    (pc = "returned" /\ writes = 1 /\ Truthy(route_host_override))
        => LET n    == Find(Substituted, SpecPortMarker)
               line == HostLine(route_host_override)
               m    == IF n = 0 THEN Len(Substituted) ELSE Len(Substituted) + Len(line)
           IN  /\ Len(output_file) >= m
               /\ SubSeq(output_file, 1, m)
                     = IF n = 0 THEN Substituted
                       ELSE SubSeq(Substituted, 1, n) \o line
                            \o SubSeq(Substituted, n + 1, Len(Substituted))
               /\ CountOcc(output_file, line) = IF n = 0 THEN 0 ELSE 1
               /\ ~Contains(SubSeq(output_file, m + 1, Len(output_file)),
                            route_host_override)

C6_Witness ==
    /\ pc = "returned"
    /\ writes = 1
    /\ route_host_override = OldHost
    /\ CountOcc(Substituted, SpecPortMarker) = 2
    /\ HasRhAi
    /\ legacy_host(values[REDIRECT_URL]) = None
    /\ CountOcc(output_file, SpecPortMarker) = 2
    /\ CountOcc(output_file, HostLine(OldHost)) = 1


----------------------------------------------------------------------------
(* Properties of a whole run (under Spec).                                 *)

Ran(query) == query \in Elems(queries)

\* C3: when all three detection probes fail, auto_discover_values ends the
\* process with a non-zero status before discover_redirect_url is invoked:
\* neither the consolelink query nor the route query is ever executed,
\* whatever the placeholders and whether or not --redirect-url was given.
C3_UndetectedExitsBeforeDiscovery ==
    (Ran(QDashboard) /\ platform = NoDescriptor)
        => /\ pc = "exited"
           /\ exit_status = <<1>>
           /\ ~Ran(QConsolelink)
           /\ ~Ran(QRoute)
           /\ discovered = None
           /\ values = EmptyMap

C3_Witness ==
    /\ pc = "exited"
    /\ error = "platform_undetected"
    /\ queries = <<QDashboard, QRhoaiSub, QOdhSub>>
    /\ REDIRECT_URL \in Elems(variables)
    /\ redirect_url_override = None
    /\ exit_status = <<1>>

\* auto_discover_values has returned
ResolverReturned == pc \in {"render_template", "apply_hint"}

KnownNames == {NAMESPACE, ROUTE_NAME, REDIRECT_URL}

\* C7: when auto_discover_values returns, the map's key set is the set of
\* discovered placeholders and every value is a non-empty string; NAMESPACE
\* and ROUTE_NAME are the descriptor's namespace and route name;
\* REDIRECT_URL is the override when one (a non-empty string, line 187) was
\* given and the discoverer's result otherwise; a run whose template has a
\* placeholder other than these three exits non-zero.
C7_ResolverCompleteness ==
    /\ ResolverReturned
          => /\ DOMAIN values = VariableSet(template)
             /\ \A k \in DOMAIN values : values[k] # None /\ values[k] # << >>
             /\ NAMESPACE \in DOMAIN values => values[NAMESPACE] = platform.namespace
             /\ ROUTE_NAME \in DOMAIN values => values[ROUTE_NAME] = platform.route_name
             /\ REDIRECT_URL \in DOMAIN values
                   => IF redirect_url_override \notin {None, << >>}
                      THEN values[REDIRECT_URL] = redirect_url_override
                           /\ ~Ran(QConsolelink)
                      ELSE values[REDIRECT_URL] = discovered /\ Ran(QConsolelink)
    /\ ~(VariableSet(template) \subseteq KnownNames)
          => /\ ~ResolverReturned
             /\ writes = 0
             /\ pc = "exited" => exit_status = <<1>>

C7_Witness ==
    /\ pc = "render_template"
    /\ DOMAIN values = KnownNames
    /\ redirect_url_override = << >>
    /\ values[REDIRECT_URL] = <<"https://">> \o GatewayHost
    /\ queries[Len(queries)] = QRoute
    /\ values[NAMESPACE] = <<"my-namespace">>

FatalDiagnostics == {"no_cli_tool", "platform_undetected", "unresolvable", "missing_value"}

\* C8: in every run the output file is written at most once, and only after
\* the CLI tool was found, the platform detected and every placeholder
\* resolved; a run that ends on a fatal path exits non-zero without having
\* written the file; the 'no placeholders' short-circuit exits with status 0
\* without writing it and without any cluster query.
C8_NoPartialSuccess ==
    /\ writes <= 1
    /\ (writes = 0) = (output_file = None)
    /\ writes = 1
          => /\ path_tools # {}
             /\ cli \in {<<"oc">>, <<"kubectl">>}
             /\ platform.platform_type \in {<<"rhoai">>, <<"odh">>}
             /\ DOMAIN values = VariableSet(template)
             /\ \A k \in DOMAIN values : values[k] # None /\ values[k] # << >>
             /\ pc \in {"apply_hint", "exited"}
             /\ pc = "exited" => exit_status = <<0>>
    /\ (pc = "exited" /\ exit_status # <<0>>)
          => (exit_status = <<1>> /\ writes = 0 /\ error # "none")
    /\ error \in FatalDiagnostics => (pc = "exited" /\ exit_status = <<1>> /\ writes = 0)
    /\ (pc = "exited" /\ path_tools = {} /\ template_exists) => error = "no_cli_tool"
    /\ (pc = "exited" /\ path_tools # {} /\ template_exists /\ VariableSet(template) = {})
          => (exit_status = <<0>> /\ writes = 0 /\ queries = << >>)

C8_Witness ==
    /\ pc = "exited"
    /\ exit_status = <<0>>
    /\ writes = 1
    /\ DOMAIN values = KnownNames
    /\ HasRhAi
    /\ route_host_override = OldHost
    /\ CountOcc(output_file, SpecPortMarker) = 0
    /\ CountOcc(output_file, HostLine(OldHost)) = 1


====
